---- MODULE Spec2Model ----
(***************************************************************************)
(* Model of src/main.rs: a Bevy application that keeps several coin-toss   *)
(* simulations, each in its own World and Schedule stored as the resource  *)
(* Simulation<N> of the main world.  For every registered simulation the   *)
(* Update stage of the main schedule holds two systems, run_simulation<N>  *)
(* and collect_data<N>; report_simulation runs in PostUpdate.              *)
(*                                                                         *)
(* Probabilities are fixed-point numbers in tenths (One stands for 1.0).   *)
(* The counters are isize in the source; the bounds below keep them far    *)
(* from the 64-bit range, so they are modelled as unbounded integers.      *)
(***************************************************************************)
EXTENDS Integers, Sequences, FiniteSets, TLC

\* ---- bounds of the model ----
MaxSims == 2        \* number of const-generic slots N of Simulation<N>
MaxEntities == 2    \* largest entity count passed to Simulation::new
MaxSteps == 2       \* largest SimulationSteps value
MaxTicks == 2       \* number of passes of the main schedule explored
RngMod == 8         \* size of the state space of the generator
MaxRerunTicks == 1  \* longest first execution that is executed again
MainTicks == 1      \* passes explored of the setup that main ships

\* ---- program constants ----
Seed == 42          \* SmallRng::seed_from_u64(42)
One == 10           \* the probability 1.0, in tenths
MainSteps == 10     \* insert_resource(SimulationSteps(10))

Slots == 1..MaxSims
\* probabilities offered to Simulation::new: -0.1, 0.0, 0.5, 1.0, 1.5
PValues == {0 - 1, 0, 5, One, One + 5}
\* entity counts offered to Simulation::new (isize: may be zero or negative)
NValues == (0 - 1)..MaxEntities
\* values of the SimulationSteps resource (isize: may be zero or negative)
StepValues == (0 - 1)..MaxSteps

NoSim == [absent |-> TRUE]

VARIABLES
    phase,           \* "setup", "update", "postupdate" or "panicked"
    steps,           \* the SimulationSteps resource of the main world
    sims,            \* the Simulation<N> resources of the main world, by N
    systems,         \* the systems of CoreStage::Update, in insertion order
    done,            \* indices of the Update systems that ran in this pass
    pc,              \* position of the run_simulation<N> system, by N
    collected_data,  \* the Vec<CoinSimResults> resource of the main world
    origin,          \* for every element of collected_data: who pushed it, when
    tick,            \* number of completed passes of the main schedule
    printed,         \* what the last report_simulation call iterated over
    run,             \* 1 in the first execution of the program, 2 in the second
    prev,            \* the first execution's pass count and Vec, once it is over
    count            \* by N: run_once calls completed and draws made so far

vars == <<phase, steps, sims, systems, done, pc, collected_data, origin, tick, printed,
          run, prev, count>>

NoCount == [steps |-> 0, draws |-> 0]

Idle == [at |-> "idle", sys |-> 0, iter |-> 0, cursor |-> 0]

\* ---- the generator and the Bernoulli distribution (rand) ----

\* SmallRng: a deterministic generator; one draw advances the state.
RngSeed(seed) == seed % RngMod

RngNext(s) == (5 * s + 7) % RngMod

\* Bernoulli::new(p).unwrap().sample(rng): p = 1.0 answers true without
\* drawing; otherwise one draw v is compared with p scaled to the range of v.
Sample(p, rng) ==
    IF p = One
    THEN [heads |-> TRUE, rng |-> rng, draws |-> 0]
    ELSE LET v == RngNext(rng)
         IN  [heads |-> v * One < p * RngMod, rng |-> v, draws |-> 1]

\* ---- simulation: Simulation::new and the three systems ----

\* Simulation::new without the assertion p <= 1.0
ValidPLowerOnly(p) == p >= 0

\* assert!(p >= 0.0); assert!(p <= 1.0);
ValidP(p) == p >= 0 /\ p <= One

NewResults(p) == [p |-> p, n_tosses |-> 0, n_heads |-> 0]

\* for _ in 0..n_tosses { world.spawn().insert(CoinOdds { p }) }
SpawnCoins(p, n_tosses) ==
    [k \in 1..(IF n_tosses > 0 THEN n_tosses ELSE 0) |-> [odds |-> p, state |-> "None"]]

SimulationNew(p, n_tosses) ==
    [coins   |-> SpawnCoins(p, n_tosses),
     ntosses |-> n_tosses,
     rng     |-> RngSeed(Seed),
     results |-> NewResults(p)]

\* flip_coins over the entities from k on, followed by the insertion of the
\* queued CoinState components when the "simulation" stage ends.
RECURSIVE FlipFrom(_, _, _, _)
FlipFrom(coins, k, rng, draws) ==
    IF k > Len(coins)
    THEN [coins |-> coins, rng |-> rng, draws |-> draws]
    ELSE LET s == Sample(coins[k].odds, rng)
         IN  FlipFrom([coins EXCEPT ![k].state = IF s.heads THEN "Heads" ELSE "Tails"],
                      k + 1, s.rng, draws + s.draws)

\* flip_coins counting the trials itself
flip_coinsCounting(sim) ==
    LET f == FlipFrom(sim.coins, 1, sim.rng, 0)
    IN  [sim EXCEPT !.coins = f.coins, !.rng = f.rng,
                    !.results.n_tosses = @ + Len(sim.coins)]

flip_coins(sim) ==
    LET f == FlipFrom(sim.coins, 1, sim.rng, 0)
    IN  [sim EXCEPT !.coins = f.coins, !.rng = f.rng]

\* number of draws flip_coins makes on the generator of sim
FlipDraws(sim) == FlipFrom(sim.coins, 1, sim.rng, 0).draws

\* record_coins with the trial counted in the else branch only
RecordOneTailsOnly(results, coin) ==
    IF coin.state = "None"
    THEN results
    ELSE IF coin.state = "Heads"
         THEN [results EXCEPT !.n_heads = @ + 1]
         ELSE [results EXCEPT !.n_tosses = @ + 1]

\* record_coins comparing the outcome with CoinState::Tails
RecordOneCountsTails(results, coin) ==
    IF coin.state = "None"
    THEN results
    ELSE [results EXCEPT !.n_tosses = @ + 1,
                         !.n_heads = IF coin.state = "Tails" THEN @ + 1 ELSE @]

\* one iteration of the loop of record_coins, on the entity `coin`
RecordOne(results, coin) ==
    IF coin.state = "None"
    THEN results
    ELSE [results EXCEPT !.n_tosses = @ + 1,
                         !.n_heads = IF coin.state = "Heads" THEN @ + 1 ELSE @]

\* the "recording" stage without reset_coins
reset_coinsMissing(sim) == sim

\* the generator seeded again at the end of every step
reset_coinsReseeding(sim) ==
    [sim EXCEPT !.coins = [k \in 1..Len(sim.coins) |-> [sim.coins[k] EXCEPT !.state = "None"]],
                !.rng = RngSeed(Seed)]

\* reset_coins, followed by the removal of the CoinState components when the
\* "recording" stage ends.
reset_coins(sim) ==
    [sim EXCEPT !.coins = [k \in 1..Len(sim.coins) |-> [sim.coins[k] EXCEPT !.state = "None"]]]

\* ---- machinery ----

RunSys(n) == [kind |-> "run", n |-> n]
CollectSys(n) == [kind |-> "collect", n |-> n]

Registered == {n \in DOMAIN sims : sims[n] # NoSim}

\* position of slot n in registration order (0 when not registered)
RegIndex(n) ==
    IF \E i \in 1..Len(systems) : systems[i] = RunSys(n)
    THEN CHOOSE i \in 1..Len(systems) :
            /\ systems[i] = RunSys(n)
            /\ \A j \in 1..(i - 1) : systems[j] # RunSys(n)
    ELSE 0

Init ==
    /\ phase = "setup"
    /\ steps \in StepValues
    /\ sims = [n \in Slots |-> NoSim]
    /\ systems = << >>
    /\ done = {}
    /\ pc = [n \in Slots |-> Idle]
    /\ collected_data = << >>
    /\ origin = << >>
    /\ tick = 0
    /\ printed = << >>
    /\ run = 1
    /\ prev = [ticks |-> 0, store |-> << >>]
    /\ count = [n \in Slots |-> NoCount]

\* main: .add_simulation(Simulation::<n>::new(p, n_tosses)); the assertions of
\* Simulation::new panic before add_simulation is entered.  insert_resource
\* replaces a Simulation<n> inserted before.
AddSimulation(n, p, n_tosses) ==
    /\ phase = "setup"
    /\ IF ValidP(p)
       THEN /\ sims' = [sims EXCEPT ![n] = SimulationNew(p, n_tosses)]
            /\ systems' = systems \o <<RunSys(n), CollectSys(n)>>
            /\ count' = [count EXCEPT ![n] = NoCount]
            /\ UNCHANGED phase
       ELSE /\ phase' = "panicked"
            /\ UNCHANGED <<sims, systems, count>>
    /\ UNCHANGED <<steps, done, pc, collected_data, origin, tick, printed, run, prev>>

\* main: .run()
RunApp ==
    /\ phase = "setup"
    /\ phase' = "update"
    /\ UNCHANGED <<steps, sims, systems, done, pc, collected_data, origin, tick, printed, run, prev, count>>

\* The host stops the program after TickLimit passes of the main schedule; the
\* second execution is given as many passes as the first one made.
TickLimit == IF run = 2 THEN prev.ticks ELSE MaxTicks

\* the loop written 0..=steps.0
LoopContinuesInclusive(iters) == iters <= steps

\* for _ in 0..steps.0: is there another iteration after `iters` of them?
LoopContinues(iters) == iters < steps

\* The executor starts run_simulation<N> (system i of Update): it needs
\* exclusive access to Simulation<N>.  `for _ in 0..steps.0` is empty when
\* steps.0 <= 0.
BeginRun(i) ==
    /\ phase = "update" /\ tick < TickLimit
    /\ i \in 1..Len(systems) /\ i \notin done
    /\ systems[i].kind = "run"
    /\ pc[systems[i].n].at = "idle"
    /\ IF LoopContinues(0)
       THEN /\ pc' = [pc EXCEPT ![systems[i].n] =
                        [at |-> "simulation", sys |-> i, iter |-> 0, cursor |-> 0]]
            /\ UNCHANGED done
       ELSE /\ done' = done \cup {i}
            /\ UNCHANGED pc
    /\ UNCHANGED <<phase, steps, sims, systems, collected_data, origin, tick, printed, run, prev, count>>

\* the "simulation" stage drawing from one generator shared by all worlds
FlipStageSharedRng(n) ==
    /\ pc[n].at = "simulation"
    /\ sims' = [m \in Slots |->
                  IF m = n THEN flip_coins(sims[n])
                  ELSE IF sims[m] = NoSim THEN NoSim
                  ELSE [sims[m] EXCEPT !.rng = flip_coins(sims[n]).rng]]
    /\ pc' = [pc EXCEPT ![n].at = "recording", ![n].cursor = 1]
    /\ count' = [count EXCEPT ![n].draws = @ + FlipDraws(sims[n])]
    /\ UNCHANGED <<phase, steps, systems, done, collected_data, origin, tick, printed, run, prev>>

\* schedule.run_once: the "simulation" stage
FlipStage(n) ==
    /\ pc[n].at = "simulation"
    /\ sims' = [sims EXCEPT ![n] = flip_coins(sims[n])]
    /\ pc' = [pc EXCEPT ![n].at = "recording", ![n].cursor = 1]
    /\ count' = [count EXCEPT ![n].draws = @ + FlipDraws(sims[n])]
    /\ UNCHANGED <<phase, steps, systems, done, collected_data, origin, tick, printed, run, prev>>

\* schedule.run_once: the "recording" stage, record_coins on the next entity
RecordStep(n) ==
    /\ pc[n].at = "recording"
    /\ pc[n].cursor <= Len(sims[n].coins)
    /\ sims' = [sims EXCEPT ![n].results = RecordOne(@, sims[n].coins[pc[n].cursor])]
    /\ pc' = [pc EXCEPT ![n].cursor = @ + 1]
    /\ UNCHANGED <<phase, steps, systems, done, collected_data, origin, tick, printed, run, prev, count>>

\* the "recording" stage ended by reset_coins before record_coins is through
ResetStageEarly(n) ==
    /\ pc[n].at = "recording"
    /\ sims' = [sims EXCEPT ![n] = reset_coins(sims[n])]
    /\ IF LoopContinues(pc[n].iter + 1)
       THEN /\ pc' = [pc EXCEPT ![n].at = "simulation", ![n].iter = @ + 1, ![n].cursor = 0]
            /\ UNCHANGED done
       ELSE /\ pc' = [pc EXCEPT ![n] = Idle]
            /\ done' = done \cup {pc[n].sys}
    /\ count' = [count EXCEPT ![n].steps = @ + 1]
    /\ UNCHANGED <<phase, steps, systems, collected_data, origin, tick, printed, run, prev>>

\* schedule.run_once: the end of the "recording" stage (reset_coins), and the
\* loop of run_simulation going round or falling through.
ResetStage(n) ==
    /\ pc[n].at = "recording"
    /\ pc[n].cursor > Len(sims[n].coins)
    /\ sims' = [sims EXCEPT ![n] = reset_coins(sims[n])]
    /\ IF LoopContinues(pc[n].iter + 1)
       THEN /\ pc' = [pc EXCEPT ![n].at = "simulation", ![n].iter = @ + 1, ![n].cursor = 0]
            /\ UNCHANGED done
       ELSE /\ pc' = [pc EXCEPT ![n] = Idle]
            /\ done' = done \cup {pc[n].sys}
    /\ count' = [count EXCEPT ![n].steps = @ + 1]
    /\ UNCHANGED <<phase, steps, systems, collected_data, origin, tick, printed, run, prev>>

\* collect_data<N> (system i of Update): it reads Simulation<N> and writes the
\* Vec, so it runs while no run_simulation<N> is active.
\* sim_data.clone()
Snapshot(sim) == sim.results

\* a push that skips a value the Vec already holds
PushDedup(vec, x) ==
    IF \E k \in 1..Len(vec) : vec[k] = x THEN vec ELSE Append(vec, x)

\* a push at the front of the Vec
PushFront(vec, x) == <<x>> \o vec

\* collected_data.push(..)
Push(vec, x) == Append(vec, x)

CollectData(i) ==
    /\ phase = "update" /\ tick < TickLimit
    /\ i \in 1..Len(systems) /\ i \notin done
    /\ systems[i].kind = "collect"
    /\ pc[systems[i].n].at = "idle"
    /\ collected_data' = Push(collected_data, Snapshot(sims[systems[i].n]))
    /\ origin' = Append(origin, [n |-> systems[i].n, tick |-> tick + 1])
    /\ done' = done \cup {i}
    /\ UNCHANGED <<phase, steps, sims, systems, pc, tick, printed, run, prev, count>>

\* report_simulation not kept behind the systems of Update
EndUpdateEarly ==
    /\ phase = "update" /\ tick < TickLimit
    /\ phase' = "postupdate"
    /\ UNCHANGED <<steps, sims, systems, done, pc, collected_data, origin, tick, printed, run, prev, count>>

\* every system of Update has run: the main schedule moves on to PostUpdate
EndUpdate ==
    /\ phase = "update" /\ tick < TickLimit
    /\ done = 1..Len(systems)
    /\ phase' = "postupdate"
    /\ UNCHANGED <<steps, sims, systems, done, pc, collected_data, origin, tick, printed, run, prev, count>>

\* report_simulation in PostUpdate; the pass of the main schedule ends
ReportSimulation ==
    /\ phase = "postupdate"
    /\ printed' = collected_data
    /\ tick' = tick + 1
    /\ done' = {}
    /\ phase' = "update"
    /\ UNCHANGED <<steps, sims, systems, pc, collected_data, origin, run, prev, count>>

\* The program is executed a second time with the configuration of the first
\* execution: main registers the same simulations in the same order, with
\* the same SimulationSteps.
Rerun ==
    /\ run = 1
    /\ phase = "update" /\ done = {} /\ tick >= 1 /\ tick <= MaxRerunTicks
    /\ \A n \in Slots : pc[n].at = "idle"
    /\ run' = 2
    /\ prev' = [ticks |-> tick, store |-> collected_data]
    /\ sims' = [n \in Slots |->
                  IF sims[n] = NoSim THEN NoSim
                  ELSE SimulationNew(sims[n].results.p, sims[n].ntosses)]
    /\ collected_data' = << >>
    /\ origin' = << >>
    /\ printed' = << >>
    /\ tick' = 0
    /\ count' = [n \in Slots |-> NoCount]
    /\ UNCHANGED <<phase, steps, systems, done, pc>>

\* main gives every simulation "a new value for N"
Next ==
    \/ \E n \in Slots \ Registered, p \in PValues, e \in NValues : AddSimulation(n, p, e)
    \/ RunApp
    \/ \E i \in 1..(2 * MaxSims) : BeginRun(i)
    \/ \E n \in Slots : FlipStage(n)
    \/ \E n \in Slots : RecordStep(n)
    \/ \E n \in Slots : ResetStage(n)
    \/ \E i \in 1..(2 * MaxSims) : CollectData(i)
    \/ EndUpdate
    \/ ReportSimulation

Spec == Init /\ [][Next]_vars

\* two executions of the program, one after the other
NextTwoRuns == Next \/ Rerun

SpecTwoRuns == Init /\ [][NextTwoRuns]_vars

\* add_simulation called with any N, also one that was used before
NextReuse ==
    \/ \E n \in Slots, p \in PValues, e \in NValues :
          Len(systems) < 2 * MaxSims /\ AddSimulation(n, p, e)
    \/ RunApp
    \/ \E i \in 1..(2 * MaxSims) : BeginRun(i)
    \/ \E n \in Slots : FlipStage(n)
    \/ \E n \in Slots : RecordStep(n)
    \/ \E n \in Slots : ResetStage(n)
    \/ \E i \in 1..(2 * MaxSims) : CollectData(i)
    \/ EndUpdate
    \/ ReportSimulation

SpecReuse == Init /\ [][NextReuse]_vars

\* The setup that main ships: Simulation::<1>::new(0.5, 100),
\* Simulation::<2>::new(0.1, 100), Simulation::<3>::new(1.0, 400), with the
\* entity counts in hundreds (1 stands for 100 entities, 4 for 400).
MainSetup ==
    << [p |-> 5,   n_tosses |-> 1],
       [p |-> 1,   n_tosses |-> 1],
       [p |-> One, n_tosses |-> 4] >>

MainSlots == 1..Len(MainSetup)

InitMain ==
    /\ phase = "setup"
    /\ steps = MainSteps
    /\ sims = [n \in MainSlots |-> NoSim]
    /\ systems = << >>
    /\ done = {}
    /\ pc = [n \in MainSlots |-> Idle]
    /\ collected_data = << >>
    /\ origin = << >>
    /\ tick = 0
    /\ printed = << >>
    /\ run = 1
    /\ prev = [ticks |-> 0, store |-> << >>]
    /\ count = [n \in MainSlots |-> NoCount]

\* main: the three add_simulation calls in their order, then run()
NextMain ==
    \/ \E n \in MainSlots :
          /\ Len(systems) = 2 * (n - 1)
          /\ AddSimulation(n, MainSetup[n].p, MainSetup[n].n_tosses)
    \/ Len(systems) = 2 * Len(MainSetup) /\ RunApp
    \/ \E i \in 1..(2 * Len(MainSetup)) : tick < MainTicks /\ BeginRun(i)
    \/ \E n \in MainSlots : FlipStage(n)
    \/ \E n \in MainSlots : RecordStep(n)
    \/ \E n \in MainSlots : ResetStage(n)
    \/ \E i \in 1..(2 * Len(MainSetup)) : tick < MainTicks /\ CollectData(i)
    \/ tick < MainTicks /\ EndUpdate
    \/ ReportSimulation

SpecMain == InitMain /\ [][NextMain]_vars

\* ---- properties ----

\* no system of Update is running or still to run in this pass
Quiescent ==
    \/ phase = "postupdate"
    \/ /\ phase = "update" /\ done = {}
       /\ \A n \in DOMAIN pc : pc[n].at = "idle"

\* number of passes whose Update stage is over
Completed == IF phase = "postupdate" THEN tick + 1 ELSE tick

\* C1: in every state the success counter n_heads of every instance is at
\* most its trial counter n_tosses, and so it is in every snapshot of the Vec.
C1_HeadsAtMostTosses ==
    /\ \A n \in Registered : sims[n].results.n_heads <= sims[n].results.n_tosses
    /\ \A k \in 1..Len(collected_data) :
          collected_data[k].n_heads <= collected_data[k].n_tosses

\* C1 witness: an instance in the middle of its record stage has counted a
\* head, while the Vec already holds a snapshot with a head.
C1_Witness ==
    \E n \in Registered :
        /\ pc[n].at = "recording"
        /\ pc[n].cursor > 1 /\ pc[n].cursor <= Len(sims[n].coins)
        /\ sims[n].results.n_heads >= 1
        /\ \E k \in 1..Len(collected_data) : collected_data[k].n_heads >= 1

\* C2: the snapshots pushed within one pass of the main schedule appear in
\* the Vec in the order in which their instances were registered.
C2_RegistrationOrder ==
    \A a, b \in 1..Len(origin) :
        (a < b /\ origin[a].tick = origin[b].tick)
            => RegIndex(origin[a].n) < RegIndex(origin[b].n)

\* C3: a second execution with the same configuration and the same number
\* of passes ends with the same Vec as the first execution.
C3_Deterministic ==
    (run = 2 /\ tick = prev.ticks /\ Quiescent) => collected_data = prev.store

\* C4: a snapshot of an instance that has steps to run is pushed in a pass
\* only after run_simulation of that instance has finished in that pass, so
\* that when the Update stage is over the snapshots of the pass equal the
\* counters of their instances.
C4_SnapshotAfterRun ==
    \A k \in 1..Len(origin) :
        origin[k].tick = tick + 1
            => /\ (steps >= 1 /\ Len(sims[origin[k].n].coins) >= 1)
                     => RegIndex(origin[k].n) \in done
               /\ phase = "postupdate"
                     => collected_data[k] = sims[origin[k].n].results

\* C5: with at least one entity and at least one step per pass, the trial
\* counter of an instance after T completed passes is T * K * E.
C5_TrialsAreTicksStepsEntities ==
    \A n \in Registered :
        (Quiescent /\ steps >= 1 /\ sims[n].ntosses >= 1)
            => sims[n].results.n_tosses = Completed * steps * sims[n].ntosses

\* C5 witness: two entities, two steps per pass, two passes: eight trials.
C5_Witness ==
    \E n \in Registered :
        /\ Quiescent /\ Completed = 2 /\ steps = 2 /\ sims[n].ntosses = 2
        /\ sims[n].results.n_tosses = 8

\* C6: every pass pushes exactly one snapshot per registered instance and
\* none is merged with an earlier one: the Vec holds N snapshots per completed
\* pass plus one per collect_data system that ran in the current pass.
C6_OneSnapshotPerInstancePerTick ==
    /\ Len(collected_data) =
          Cardinality(Registered) * tick
            + Cardinality({i \in done : systems[i].kind = "collect"})
    /\ Quiescent =>
          \A n \in Registered, t \in 1..Completed :
              Cardinality({k \in 1..Len(origin) : origin[k] = [n |-> n, tick |-> t]}) = 1

\* C6 witness: two instances, two passes, four snapshots, two of them of the
\* same instance and equal.
C6_Witness ==
    /\ Quiescent /\ Completed = 2 /\ Cardinality(Registered) = 2
    /\ Len(collected_data) = 4
    /\ \E a, b \in 1..Len(origin) :
          a < b /\ origin[a].n = origin[b].n /\ collected_data[a] = collected_data[b]

\* C7: the Vec only grows at its end: every step keeps what it held, element
\* by element and position by position.
C7_AppendOnly ==
    [][/\ Len(collected_data') >= Len(collected_data)
       /\ \A k \in 1..Len(collected_data) : collected_data'[k] = collected_data[k]]_vars

\* C7 witness: after a report, the Vec holds a snapshot that differs from the
\* present counters of the instance it was copied from.
C7_Witness ==
    /\ tick >= 1 /\ printed # << >>
    /\ \E k \in 1..Len(origin) : collected_data[k] # sims[origin[k].n].results

\* C8: a stage of instance n changes neither the world nor the position of
\* any other instance, and collect_data<n> pushes the counters of instance n
\* and changes no instance.
C8_Isolation ==
    [][/\ \A n \in Slots :
            (FlipStage(n) \/ RecordStep(n) \/ ResetStage(n))
                => \A m \in Slots \ {n} : sims'[m] = sims[m] /\ pc'[m] = pc[m]
       /\ \A i \in 1..Len(systems) :
            CollectData(i)
                => /\ sims' = sims
                   /\ collected_data'[Len(collected_data')] = sims[systems[i].n].results]_vars

\* C8 witness: two instances are in the middle of their runs at once, one of
\* them with trials counted and the other about to draw.
C8_Witness ==
    \E n, m \in Registered :
        /\ n # m
        /\ pc[n].at = "recording" /\ sims[n].results.n_tosses >= 1
        /\ pc[m].at = "simulation" /\ Len(sims[m].coins) >= 1

\* C9: a probability outside [0, 1] never gets into the registry or the Vec:
\* Simulation::new panics, and after the panic nothing was run or collected.
C9_InvalidProbabilityRejected ==
    /\ \A n \in Registered :
          /\ sims[n].results.p >= 0 /\ sims[n].results.p <= One
          /\ \A k \in 1..Len(sims[n].coins) :
                sims[n].coins[k].odds >= 0 /\ sims[n].coins[k].odds <= One
    /\ \A k \in 1..Len(collected_data) :
          collected_data[k].p >= 0 /\ collected_data[k].p <= One
    /\ phase = "panicked" =>
          /\ collected_data = << >> /\ tick = 0
          /\ \A n \in Slots : pc[n] = Idle

\* C9 witness: Simulation::new has panicked after another instance had been
\* registered.
C9_Witness ==
    phase = "panicked" /\ Registered # {}

\* C10: every registered instance has at least one entity.
C10_PositiveEntityCount ==
    \A n \in Registered : sims[n].ntosses >= 1 /\ Len(sims[n].coins) >= 1

\* C11: a SimulationSteps value below 1 is rejected before any pass runs: no
\* snapshot is ever pushed with the instances running zero steps per pass.
C11_PositiveSteps ==
    collected_data # << >> => steps >= 1

\* number of add_simulation calls that returned
Calls == Cardinality({i \in 1..Len(systems) : systems[i].kind = "run"})

\* no two add_simulation calls used the same N
NoReuse ==
    \A i, j \in 1..Len(systems) :
        (i < j /\ systems[i].kind = "run" /\ systems[j].kind = "run")
            => systems[i].n # systems[j].n

\* run_once calls per pass: steps.0, or none when steps.0 <= 0
StepsPerTick == IF steps > 0 THEN steps ELSE 0

\* every registered instance has been stepped StepsPerTick times per completed
\* pass and has one snapshot in the Vec for each completed pass
SteppedAndSnapshotted ==
    \A n \in Registered :
        /\ count[n].steps = Completed * StepsPerTick
        /\ \A t \in 1..Completed :
              Cardinality({k \in 1..Len(origin) : origin[k] = [n |-> n, tick |-> t]}) = 1

\* C12 (as claimed): n add_simulation calls yield n distinct registered
\* instances, each stepped K times and snapshotted once per pass.
C12_CallsYieldInstances ==
    /\ Cardinality(Registered) = Calls
    /\ Quiescent => SteppedAndSnapshotted

\* C12 (amended): the same, when every call uses an N that no earlier call
\* used.
C12_NewNYieldsInstances ==
    NoReuse =>
        /\ Cardinality(Registered) = Calls
        /\ Quiescent => SteppedAndSnapshotted

\* C12 witness: two calls with different N, two passes of two steps done.
C12_Witness ==
    /\ NoReuse /\ Calls = 2 /\ Cardinality(Registered) = 2
    /\ Quiescent /\ Completed = 2 /\ steps = 2
    /\ \A n \in Registered : count[n].steps = 4

\* C13: at every step boundary of an instance (after construction and after
\* the reset of each step) no entity carries an outcome, and once the mutate
\* stage of a step has taken effect every entity carries one, heads or tails.
C13_OutcomesClearedThenAttached ==
    \A n \in Registered :
        /\ pc[n].at \in {"idle", "simulation"}
              => \A k \in 1..Len(sims[n].coins) : sims[n].coins[k].state = "None"
        /\ pc[n].at = "recording"
              => \A k \in 1..Len(sims[n].coins) :
                    sims[n].coins[k].state \in {"Heads", "Tails"}

\* C13 witness: after a completed step (and its reset) the mutate stage of the
\* following step has attached an outcome to both entities of an instance.
C13_Witness ==
    \E n \in Registered :
        /\ count[n].steps >= 1 /\ pc[n].at = "recording"
        /\ Len(sims[n].coins) = 2
        /\ \A k \in 1..2 : sims[n].coins[k].state # "None"

\* the Update stage of the first pass is over
FirstTickOver == phase = "postupdate" /\ tick = 0

C15_StagesInOrder ==
    \A n \in Registered :
        LET E    == Len(sims[n].coins)
            base == count[n].steps * E
        IN  /\ pc[n].at = "recording"
                  => /\ pc[n].cursor \in 1..(E + 1)
                     /\ \A k \in 1..E : sims[n].coins[k].state # "None"
                     /\ sims[n].results.n_tosses = base + pc[n].cursor - 1
            /\ pc[n].at # "recording"
                  => /\ \A k \in 1..E : sims[n].coins[k].state = "None"
                     /\ sims[n].results.n_tosses = base
            /\ pc[n].at = "idle" => pc[n] = Idle
            /\ pc[n].at # "idle" => pc[n].iter < steps

\* C15 witness: in its second step or later, record_coins has counted the
\* first of two entities and the second still carries its outcome.
C15_Witness ==
    \E n \in Registered :
        /\ pc[n].at = "recording" /\ pc[n].cursor = 2 /\ pc[n].iter >= 1
        /\ Len(sims[n].coins) = 2
        /\ sims[n].coins[2].state # "None"
        /\ sims[n].results.n_tosses = 2 * count[n].steps + 1

\* C16: the parameter and the counters of an instance change only in a step
\* of record_coins: the mutate stage, the reset stage, collect_data and
\* report_simulation leave them as they are.
C16_OnlyRecordWritesCounters ==
    [][/\ \A n \in DOMAIN sims :
            (sims[n] # NoSim /\ sims'[n] # NoSim /\ sims'[n].results # sims[n].results)
                => RecordStep(n)
       /\ \A n \in Registered :
            (FlipStage(n) \/ ResetStage(n)) => sims'[n].results = sims[n].results
       /\ (ReportSimulation \/ \E i \in 1..Len(systems) : CollectData(i))
            => sims' = sims]_vars

\* C16 witness: after a report, an instance with heads on its counters has
\* been through the mutate stage again.
C16_Witness ==
    /\ tick >= 1 /\ collected_data # << >>
    /\ \E n \in Registered :
          /\ sims[n].results.n_heads >= 1
          /\ pc[n].at = "recording" /\ pc[n].cursor = 1

\* the generator state after k draws from state s
RECURSIVE RngIter(_, _)
RngIter(s, k) == IF k = 0 THEN s ELSE RngIter(RngNext(s), k - 1)

\* steps of instance n whose mutate stage has taken effect
StepsFlipped(n) == count[n].steps + (IF pc[n].at = "recording" THEN 1 ELSE 0)

\* C17 (as claimed): the generator of an instance is seeded once and only
\* advanced by draws, and every step makes exactly one draw per entity: after
\* s steps of an instance with E entities, s * E draws have been made.
C17_OneDrawPerEntityPerStep ==
    \A n \in Registered :
        /\ sims[n].rng = RngIter(RngSeed(Seed), count[n].draws)
        /\ count[n].draws = StepsFlipped(n) * Len(sims[n].coins)

\* C17 (amended): the same, with one draw per entity when the probability is
\* below 1.0 and no draw at all when it is 1.0.
C17_DrawsPerStep ==
    \A n \in Registered :
        /\ sims[n].rng = RngIter(RngSeed(Seed), count[n].draws)
        /\ count[n].draws =
              StepsFlipped(n) * (IF sims[n].results.p = One THEN 0 ELSE Len(sims[n].coins))

\* C17 witness: an instance with probability 0.5 and two entities has made
\* eight draws in four steps over two passes.
C17_Witness ==
    \E n \in Registered :
        /\ Quiescent /\ Completed = 2
        /\ sims[n].results.p = 5 /\ Len(sims[n].coins) = 2
        /\ count[n].steps = 4 /\ count[n].draws = 8

\* C18: report_simulation reads the Vec only when every run and every push of
\* the pass is over: what the report of pass t iterated over is N * t
\* snapshots, one of every instance for every pass up to t.
C18_ReportSeesWholeTicks ==
    phase \in {"update", "postupdate"} =>
        /\ Len(printed) = Cardinality(Registered) * tick
        /\ Len(printed) <= Len(collected_data)
        /\ \A k \in 1..Len(printed) : printed[k] = collected_data[k]
        /\ \A n \in Registered, t \in 1..tick :
              Cardinality({k \in 1..Len(printed) : origin[k] = [n |-> n, tick |-> t]}) = 1

\* C18 witness: the report of the second pass iterated over the four
\* snapshots of two instances.
C18_Witness ==
    /\ tick = 2 /\ Cardinality(Registered) = 2
    /\ Len(printed) = 4 /\ printed = collected_data

\* C19: with probability 1.0 every recorded trial is a success (successes =
\* trials) and with probability 0.0 none is (successes = 0), on the counters
\* of the instance and in every snapshot.
C19_ExtremeProbabilities ==
    /\ \A n \in Registered :
          /\ sims[n].results.p = One
                => sims[n].results.n_heads = sims[n].results.n_tosses
          /\ sims[n].results.p = 0 => sims[n].results.n_heads = 0
    /\ \A k \in 1..Len(collected_data) :
          /\ collected_data[k].p = One
                => collected_data[k].n_heads = collected_data[k].n_tosses
          /\ collected_data[k].p = 0 => collected_data[k].n_heads = 0

\* C19 witness: the Vec holds a snapshot with probability 1.0 and one with
\* probability 0.0, both with trials counted.
C19_Witness ==
    \E a, b \in 1..Len(collected_data) :
        /\ collected_data[a].p = One /\ collected_data[a].n_tosses >= 2
        /\ collected_data[a].n_heads = collected_data[a].n_tosses
        /\ collected_data[b].p = 0 /\ collected_data[b].n_tosses >= 2
        /\ collected_data[b].n_heads = 0

\* C20: two distinct instances registered with the same probability and the
\* same entity count have equal counters after every pass, and their
\* snapshots of the same pass are equal.
C20_TwinsAgree ==
    /\ \A n, m \in Registered :
          (Quiescent /\ sims[n].results.p = sims[m].results.p
                     /\ sims[n].ntosses = sims[m].ntosses)
              => sims[n].results = sims[m].results
    /\ \A a, b \in 1..Len(origin) :
          (/\ origin[a].tick = origin[b].tick
           /\ collected_data[a].p = collected_data[b].p
           /\ sims[origin[a].n].ntosses = sims[origin[b].n].ntosses)
              => collected_data[a] = collected_data[b]

====
